---- MODULE Spec2Model ----
(***************************************************************************)
(* A model of draw.py: the SVG loader read_svg (viewport resolution,       *)
(* transform parsing, path flattening into closed rings), the turtle       *)
(* drawing routines head_to / draw_polygon / draw_multipolygon, and the    *)
(* coordinate mapping of main.                                             *)
(*                                                                         *)
(* Numbers.  The program computes in IEEE doubles.  The model computes in  *)
(* exact integers and, where the program divides, in exact fractions kept  *)
(* as numerator/denominator; rounding is not modelled.  cos and sin are    *)
(* modelled at whole multiples of 90 degrees only, by their exact values   *)
(* (the program's values there differ from them by less than 2e-16).       *)
(***************************************************************************)
EXTENDS Integers, Sequences, FiniteSets, TLC

VARIABLES
    \* ---- parse_transform ----
    tr_pc,      \* "start" | "loop" | "returned"
    tr_calls,   \* the name(args) matches of the transform string consumed so far
    tr_m,       \* the running matrix m
    \* ---- read_svg, the loop body over one path (lines 133-149) ----
    fl_pc,      \* "path" | "subpath" | "done"
    fl_unit,    \* seg_unit
    fl_m,       \* m, the path's composed transform
    fl_path,    \* path.continuous_subpaths() as consumed so far: subpaths of segments
    fl_points,  \* points, the samples of the subpath being read
    fl_poly,    \* poly, the rings built so far
    fl_polys,   \* transformed_polys
    \* ---- main's drawing loop, draw_multipolygon, draw_polygon, head_to ----
    dr_pc,      \* where the drawing code stands
    dr_elems,   \* the (poly, attr) pairs the loop of main has taken so far
    dr_ring,    \* draw_multipolygon: the ring being drawn, from 1
    dr_pt,      \* draw_polygon: the next point of the ring, from 1
    dr_pen,     \* turtle: t.isdown()
    dr_pos,     \* turtle: t.pos()
    dr_filling, \* turtle: t.filling()
    dr_color,   \* turtle: pencolor and fillcolor
    dr_calls,   \* the drawing calls made for the element in hand, in order
    \* ---- read_svg's viewport resolution, and main's coordinate mapping ----
    vw_pc,      \* where the code stands
    vw_in,      \* the document and the screen: width, height, viewBox, paths, window
    rs_size,    \* read_svg: svg_size = (width, height)
    rs_viewbox, \* read_svg: viewbox
    rs_polys,   \* read_svg: transformed_polys
    mn_vb,      \* main: vb
    mn_window,  \* main: the size given to window.setup
    mn_world    \* main: the bounds given to t.setworldcoordinates

tr_vars == <<tr_pc, tr_calls, tr_m>>
fl_vars == <<fl_pc, fl_unit, fl_m, fl_path, fl_points, fl_poly, fl_polys>>
dr_vars == <<dr_pc, dr_elems, dr_ring, dr_pt, dr_pen, dr_pos, dr_filling,
             dr_color, dr_calls>>
vw_vars == <<vw_pc, vw_in, rs_size, rs_viewbox, rs_polys, mn_vb, mn_window, mn_world>>

vars == <<tr_pc, tr_calls, tr_m,
          fl_pc, fl_unit, fl_m, fl_path, fl_points, fl_poly, fl_polys,
          dr_pc, dr_elems, dr_ring, dr_pt, dr_pen, dr_pos, dr_filling,
          dr_color, dr_calls,
          vw_pc, vw_in, rs_size, rs_viewbox, rs_polys, mn_vb, mn_window, mn_world>>

(***************************************************************************)
(* Bounds of the model.                                                    *)
(***************************************************************************)
MaxOps == 2        \* transform functions in one transform string
MaxArgs == 8       \* argument tokens inside one pair of parentheses
MaxSegs == 4       \* segments in one path
MaxUnit == 3       \* seg_unit ranges over 1..MaxUnit
MaxElems == 2      \* document elements drawn
MaxRings == 2      \* rings of one element
MaxRingPts == 3    \* points of one ring before its closing copy
MaxVbTokens == 5   \* tokens of a viewBox attribute
MaxPaths == 2      \* paths of a document

Last(s) == s[Len(s)]
Front(s) == SubSeq(s, 1, Len(s) - 1)

(***************************************************************************)
(* Matrices: 3x3, row major, as in mat_identity / mat_mul / mat_apply.     *)
(***************************************************************************)
mat_identity == << <<1, 0, 0>>, <<0, 1, 0>>, <<0, 0, 1>> >>

mat_mul(a, b) ==
    [r \in 1..3 |-> [c \in 1..3 |->
        a[r][1] * b[1][c] + a[r][2] * b[2][c] + a[r][3] * b[3][c]]]

mat_apply(m, x, y) ==
    << m[1][1] * x + m[1][2] * y + m[1][3],
       m[2][1] * x + m[2][2] * y + m[2][3] >>

(***************************************************************************)
(* cos(radians(a)) and sin(radians(a)) at a multiple of 90 degrees.        *)
(***************************************************************************)
CosDeg(a) == CASE a % 360 = 0 -> 1 [] a % 360 = 90 -> 0
               [] a % 360 = 180 -> -1 [] a % 360 = 270 -> 0

SinDeg(a) == CASE a % 360 = 0 -> 0 [] a % 360 = 90 -> 1
               [] a % 360 = 180 -> 0 [] a % 360 = 270 -> -1

(***************************************************************************)
(* The text between the parentheses of one transform function, as its      *)
(* tokens: a token is a number (float_re matches it whole) or text in      *)
(* which float_re matches nothing.                                         *)
(***************************************************************************)
Num(v) == [num |-> TRUE, val |-> v]
Bad == [num |-> FALSE, val |-> 0]

\* re.findall(float_re, s) then float(v): the numbers, in order; anything
\* else in the text is passed over.
RECURSIVE parse_numbers(_)
parse_numbers(toks) ==
    IF toks = <<>> THEN <<>>
    ELSE IF Head(toks).num THEN <<Head(toks).val>> \o parse_numbers(Tail(toks))
    ELSE parse_numbers(Tail(toks))

\* The argument texts the model feeds: the first n tokens of
\* "90 2 px 3 -1 5 4 -2 6 7".
ArgTape == << Num(90), Num(2), Bad, Num(3), Num(-1), Num(5), Num(4),
              Num(-2), Num(6), Num(7) >>

ArgTexts == { SubSeq(ArgTape, 1, n) : n \in 0..MaxArgs }

FuncNames == {"translate", "scale", "rotate", "matrix", "MATRIX", "skewX"}

\* One match of (\w+)\s*\(([^)]*)\): the function name and its argument text.
Calls == [func : FuncNames, args : ArgTexts]

\* func.lower()
Lower(name) == IF name = "MATRIX" THEN "matrix"
               ELSE IF name = "skewX" THEN "skewx" ELSE name

Translation(tx, ty) == << <<1, 0, tx>>, <<0, 1, ty>>, <<0, 0, 1>> >>

MatrixTakesMutant(vals) == Len(vals) = 6

\* elif name == 'matrix' and len(vals) >= 6
MatrixTakes(vals) == Len(vals) >= 6

\* The matrix tm of one function (lines 89-112): identity unless a branch
\* assigns it.
OpMatrix(call) ==
    LET vals == parse_numbers(call.args)
        name == Lower(call.func)
        n == Len(vals)
    IN  IF name = "translate" THEN
            Translation(IF n > 0 THEN vals[1] ELSE 0, IF n > 1 THEN vals[2] ELSE 0)
        ELSE IF name = "scale" THEN
            LET sx == IF n > 0 THEN vals[1] ELSE 1
                sy == IF n > 1 THEN vals[2] ELSE sx
            IN  << <<sx, 0, 0>>, <<0, sy, 0>>, <<0, 0, 1>> >>
        ELSE IF name = "rotate" THEN
            LET ang == IF n > 0 THEN vals[1] ELSE 0
                cx == IF n > 2 THEN vals[2] ELSE 0
                cy == IF n > 2 THEN vals[3] ELSE 0
                a == CosDeg(ang)
                b == SinDeg(ang)
                rot == << <<a, -b, 0>>, <<b, a, 0>>, <<0, 0, 1>> >>
            IN  IF n > 2
                THEN mat_mul(mat_mul(Translation(cx, cy), rot), Translation(-cx, -cy))
                ELSE rot
        ELSE IF name = "matrix" /\ MatrixTakes(vals) THEN
            << <<vals[1], vals[3], vals[5]>>, <<vals[2], vals[4], vals[6]>>, <<0, 0, 1>> >>
        ELSE mat_identity

FoldMutant(tm, m) == mat_mul(m, tm)

\* m = mat_mul(tm, m)
Fold(tm, m) == mat_mul(tm, m)

(***************************************************************************)
(* The four parts of the program are modelled by four specifications over  *)
(* the same variables; the variables of the parts a specification does not *)
(* run stay as follows.                                                    *)
(***************************************************************************)
TrIdle ==
    /\ tr_pc = "idle"
    /\ tr_calls = <<>>
    /\ tr_m = mat_identity

FlIdle ==
    /\ fl_pc = "idle"
    /\ fl_unit = 1
    /\ fl_m = mat_identity
    /\ fl_path = <<>>
    /\ fl_points = <<>>
    /\ fl_poly = <<>>
    /\ fl_polys = <<>>

DrIdle ==
    /\ dr_pc = "idle"
    /\ dr_elems = <<>>
    /\ dr_ring = 1
    /\ dr_pt = 1
    /\ dr_pen = FALSE
    /\ dr_pos = <<0, 0>>
    /\ dr_filling = FALSE
    /\ dr_color = [pen |-> "black", fill |-> "black"]
    /\ dr_calls = <<>>

VwIdle ==
    /\ vw_pc = "idle"
    /\ vw_in = <<>>
    /\ rs_size = <<0, 0>>
    /\ rs_viewbox = <<>>
    /\ rs_polys = <<>>
    /\ mn_vb = <<>>
    /\ mn_window = <<>>
    /\ mn_world = <<>>

(***************************************************************************)
(* parse_transform(s), one action per step of the function.                *)
(***************************************************************************)
TrInit ==
    /\ tr_pc = "start"
    /\ tr_calls = <<>>
    /\ tr_m = mat_identity
    /\ FlIdle
    /\ DrIdle
    /\ VwIdle

\* if not s: return mat_identity()
PT_Empty ==
    /\ tr_pc = "start"
    /\ tr_pc' = "returned"
    /\ tr_m' = mat_identity
    /\ UNCHANGED tr_calls
    /\ UNCHANGED <<fl_vars, dr_vars, vw_vars>>

\* s = s.strip(); m = mat_identity()
PT_Begin ==
    /\ tr_pc = "start"
    /\ tr_pc' = "loop"
    /\ tr_m' = mat_identity
    /\ UNCHANGED tr_calls
    /\ UNCHANGED <<fl_vars, dr_vars, vw_vars>>

\* One pass of the for loop over the next match of the string.
PT_Fold ==
    /\ tr_pc = "loop"
    /\ Len(tr_calls) < MaxOps
    /\ \E call \in Calls :
          /\ tr_calls' = Append(tr_calls, call)
          /\ tr_m' = Fold(OpMatrix(call), tr_m)
    /\ UNCHANGED tr_pc
    /\ UNCHANGED <<fl_vars, dr_vars, vw_vars>>

\* No match is left: return m
PT_Return ==
    /\ tr_pc = "loop"
    /\ tr_pc' = "returned"
    /\ UNCHANGED <<tr_calls, tr_m>>
    /\ UNCHANGED <<fl_vars, dr_vars, vw_vars>>

TrNext == PT_Empty \/ PT_Begin \/ PT_Fold \/ PT_Return

SpecTransform == TrInit /\ [][TrNext]_vars

(***************************************************************************)
(* Flattening one path into rings (lines 133-149).                         *)
(*                                                                         *)
(* A segment is a straight Line [start, end] parallel to an axis, so that  *)
(* seg.length() = |end - start| is a whole number and seg.point(t) =       *)
(* start + t * (end - start).  A sampled point is kept as the fraction     *)
(* (x / d, y / d).                                                         *)
(***************************************************************************)
Abs(v) == IF v < 0 THEN -v ELSE v

\* seg.length() of an axis-parallel Line
SegLength(seg) == Abs(seg.end[1] - seg.start[1]) + Abs(seg.end[2] - seg.start[2])

\* ceil(a / b) for a >= 0, b > 0
CeilDiv(a, b) == (a + b - 1) \div b

Max(a, b) == IF a >= b THEN a ELSE b
Min(a, b) == IF a <= b THEN a ELSE b

InterpNumMutant(len, unit) == Max(1, CeilDiv(len, unit))

\* interp_num = max(2, ceil(seg.length()/seg_unit))
InterpNum(len, unit) == Max(2, CeilDiv(len, unit))

\* seg.point(np.linspace(0, 1, n, endpoint=True)): sample i of n is at
\* t = i / (n - 1); for n = 1 linspace yields the single t = 0.
SegPoints(seg, n) ==
    [k \in 1..n |->
        LET d == Max(n - 1, 1)
            i == k - 1
        IN  [x |-> seg.start[1] * d + i * (seg.end[1] - seg.start[1]),
             y |-> seg.start[2] * d + i * (seg.end[2] - seg.start[2]),
             d |-> d]]

CloseRingMutant(points) == Append(points, points[Len(points)])

\* points = np.append(points, points[0])
CloseRing(points) == Append(points, points[1])

\* x, y = mat_apply(m, x, y) on the fraction (x / d, y / d)
ApplyToPoint(m, p) ==
    [x |-> m[1][1] * p.x + m[1][2] * p.y + m[1][3] * p.d,
     y |-> m[2][1] * p.x + m[2][2] * p.y + m[2][3] * p.d,
     d |-> p.d]

\* ring = [mat_apply(m, p.real, p.imag) for p in points]
TransformRing(m, points) == [k \in 1..Len(points) |-> ApplyToPoint(m, points[k])]

\* The sides the model's segments are drawn from, as end - start.
SegSteps == { <<0, 0>>, <<4, 0>>, <<-4, 0>>, <<0, 2>>, <<0, -2>> }

\* Where a subpath starts when it does not continue the one before it.
SubpathJump == <<1, 1>>

\* The transforms of the paths the model flattens.
PathTransforms ==
    { mat_identity,
      OpMatrix([func |-> "translate", args |-> SubSeq(ArgTape, 1, 2)]),
      OpMatrix([func |-> "scale", args |-> SubSeq(ArgTape, 1, 2)]),
      OpMatrix([func |-> "rotate", args |-> SubSeq(ArgTape, 1, 4)]) }

SegCount(path) ==
    LET RECURSIVE cnt(_)
        cnt(k) == IF k = 0 THEN 0 ELSE cnt(k - 1) + Len(path[k])
    IN  cnt(Len(path))

FlInit ==
    /\ TrIdle
    /\ fl_pc = "path"
    /\ fl_unit \in 1..MaxUnit
    /\ fl_m \in PathTransforms
    /\ fl_path = <<>>
    /\ fl_points = <<>>
    /\ fl_poly = <<>>
    /\ fl_polys = <<>>
    /\ DrIdle
    /\ VwIdle

\* Where the subpath being read has got to.
FlPos == Last(Last(fl_path)).end

\* for subpaths in path.continuous_subpaths(): points = [], then the first
\* pass of "for seg in subpaths" (a subpath holds at least one segment).
FL_Subpath ==
    /\ fl_pc = "path"
    /\ SegCount(fl_path) < MaxSegs
    /\ \E step \in SegSteps :
          LET start == IF fl_path = <<>> THEN <<0, 0>>
                       ELSE << FlPos[1] + SubpathJump[1], FlPos[2] + SubpathJump[2] >>
              seg == [start |-> start,
                      end |-> << start[1] + step[1], start[2] + step[2] >>]
          IN  /\ fl_path' = Append(fl_path, <<seg>>)
              /\ fl_points' = SegPoints(seg, InterpNum(SegLength(seg), fl_unit))
    /\ fl_pc' = "subpath"
    /\ UNCHANGED <<fl_unit, fl_m, fl_poly, fl_polys>>
    /\ UNCHANGED <<tr_vars, dr_vars, vw_vars>>

\* A further pass of "for seg in subpaths": the segment starts where the
\* one before it ended.
FL_Segment ==
    /\ fl_pc = "subpath"
    /\ SegCount(fl_path) < MaxSegs
    /\ \E step \in SegSteps :
          LET seg == [start |-> FlPos,
                      end |-> << FlPos[1] + step[1], FlPos[2] + step[2] >>]
          IN  /\ fl_path' = [fl_path EXCEPT ![Len(fl_path)] = Append(@, seg)]
              /\ fl_points' = fl_points \o SegPoints(seg, InterpNum(SegLength(seg), fl_unit))
    /\ UNCHANGED <<fl_pc, fl_unit, fl_m, fl_poly, fl_polys>>
    /\ UNCHANGED <<tr_vars, dr_vars, vw_vars>>

\* The subpath has no further segment: close the ring, apply the transform,
\* poly.append(ring).
FL_Close ==
    /\ fl_pc = "subpath"
    /\ fl_poly' = Append(fl_poly, TransformRing(fl_m, CloseRing(fl_points)))
    /\ fl_points' = <<>>
    /\ fl_pc' = "path"
    /\ UNCHANGED <<fl_unit, fl_m, fl_path, fl_polys>>
    /\ UNCHANGED <<tr_vars, dr_vars, vw_vars>>

\* The path has no further subpath: transformed_polys.append(poly).
FL_Done ==
    /\ fl_pc = "path"
    /\ fl_path # <<>>
    /\ fl_polys' = Append(fl_polys, fl_poly)
    /\ fl_pc' = "done"
    /\ UNCHANGED <<fl_unit, fl_m, fl_path, fl_points, fl_poly>>
    /\ UNCHANGED <<tr_vars, dr_vars, vw_vars>>

FlNext == FL_Subpath \/ FL_Segment \/ FL_Close \/ FL_Done

SpecFlatten == FlInit /\ [][FlNext]_vars

(***************************************************************************)
(* Drawing: the loop of main over (poly, attr), draw_multipolygon,         *)
(* draw_polygon and head_to, on a turtle whose pen state, position, fill   *)
(* state and colours are kept.  Stamps, heading and line width leave no    *)
(* trace in what the claims are about and are not kept.                    *)
(***************************************************************************)
\* Point i of ring j of element e: the rings the model draws are those
\* read_svg builds, closed, of at least 3 points.
RingPoint(e, j, i) == << 10 * j + i, 10 * e + i * i >>

RingOf(e, j, n) == [i \in 1..(n + 1) |-> RingPoint(e, j, IF i = n + 1 THEN 1 ELSE i)]

MPolyOf(e, nr, n) == [j \in 1..nr |-> RingOf(e, j, n)]

\* attr after read_svg: fill and stroke as main reads them with their
\* defaults, and stroke-width: absent, a text float() accepts ("2"), or a
\* text float() rejects ("2px", "").
ElemAttrs ==
    { [fill |-> "none", stroke |-> "black", sw |-> "absent"],
      [fill |-> "red", stroke |-> "red", sw |-> "absent"],
      [fill |-> "red", stroke |-> "blue", sw |-> "number"],
      [fill |-> "red", stroke |-> "blue", sw |-> "text"] }

\* main, lines 248-252: with a stroke-width that float() accepts,
\* t.pen(outline=..., pencolor='black'); when float() raises, the except
\* passes and the pen colour stays as the previous element left it.
StrokeWidthPen(attr, color) ==
    IF attr.sw = "number" THEN [color EXCEPT !.pen = "black"] ELSE color

\* The drawing calls the model records.
Goto(from, to, down) == [op |-> "goto", from |-> from, to |-> to, down |-> down,
                         pen |-> "", fill |-> ""]
Call(op) == [op |-> op, from |-> <<0, 0>>, to |-> <<0, 0>>, down |-> FALSE,
             pen |-> "", fill |-> ""]
SetColor(pen, fill) == [op |-> "color", from |-> <<0, 0>>, to |-> <<0, 0>>,
                        down |-> FALSE, pen |-> pen, fill |-> fill]

\* head_to(t, p[0], -(p[1]), ...): where the turtle is sent for the point p
Target(p) == << p[1], -p[2] >>

PenDuringMoveMutant(wasdown, draw) == wasdown \/ draw

\* head_to: t.pen(pendown=draw) before t.goto(x, y)
PenDuringMove(wasdown, draw) == draw

\* head_to: t.pen(pendown=wasdown) after the move
PenAfterMove(wasdown, draw) == wasdown

\* draw_polygon: if fill == 'none': fill = 'black'
PolygonFill(fill) == IF fill = "none" THEN "black" ELSE fill

FillWantedMutant(fill) == TRUE

\* if fill != 'none'
FillWanted(fill) == fill # "none"

\* The element in hand and its parts.
Elem == Last(dr_elems)
MPoly == Elem.mpoly
Ring == MPoly[dr_ring]

\* head_to(t, x, y, draw): the turtle moves to target with the pen as draw
\* says, and the pen is put back as it was found.
HeadTo(target, draw) ==
    /\ dr_calls' = Append(dr_calls, Goto(dr_pos, target, PenDuringMove(dr_pen, draw)))
    /\ dr_pos' = target
    /\ dr_pen' = PenAfterMove(dr_pen, draw)

DrInit ==
    /\ TrIdle
    /\ FlIdle
    /\ dr_pc = "main"
    /\ dr_elems = <<>>
    /\ dr_ring = 1
    /\ dr_pt = 1
    /\ dr_pen \in BOOLEAN
    /\ dr_pos = <<0, 0>>
    /\ dr_filling = FALSE
    /\ dr_color = [pen |-> "black", fill |-> "black"]
    /\ dr_calls = <<>>
    /\ VwIdle

\* main, lines 246-255: the next (poly, attr); t.pen(outline=0.5), the
\* stroke-width try/except, then fill and stroke read with their defaults.
Main_Next ==
    /\ dr_pc = "main"
    /\ Len(dr_elems) < MaxElems
    /\ \E nr \in 1..MaxRings, n \in 2..MaxRingPts, attr \in ElemAttrs :
          /\ dr_elems' = Append(dr_elems,
                [mpoly |-> MPolyOf(Len(dr_elems) + 1, nr, n),
                 fill |-> attr.fill, stroke |-> attr.stroke])
          /\ dr_color' = StrokeWidthPen(attr, dr_color)
    /\ dr_calls' = <<>>
    /\ dr_pc' = "dm_enter"
    /\ UNCHANGED <<dr_ring, dr_pt, dr_pen, dr_pos, dr_filling>>
    /\ UNCHANGED <<tr_vars, fl_vars, vw_vars>>

\* draw_multipolygon: p = mpoly[0][0]; head_to(t, p[0], -(p[1]), False)
DM_Enter ==
    /\ dr_pc = "dm_enter"
    /\ HeadTo(Target(MPoly[1][1]), FALSE)
    /\ dr_pc' = "dm_fill"
    /\ UNCHANGED <<dr_elems, dr_ring, dr_pt, dr_filling, dr_color>>
    /\ UNCHANGED <<tr_vars, fl_vars, vw_vars>>

\* if fill != 'none': t.begin_fill()
DM_BeginFill ==
    /\ dr_pc = "dm_fill"
    /\ IF FillWanted(Elem.fill)
       THEN /\ dr_filling' = TRUE
            /\ dr_calls' = Append(dr_calls, Call("begin_fill"))
       ELSE UNCHANGED <<dr_filling, dr_calls>>
    /\ dr_ring' = 1
    /\ dr_pc' = "dp_enter"
    /\ UNCHANGED <<dr_elems, dr_pt, dr_pen, dr_pos, dr_color>>
    /\ UNCHANGED <<tr_vars, fl_vars, vw_vars>>

\* draw_polygon: t.color(stroke, fill)
DP_Color ==
    /\ dr_pc = "dp_enter"
    /\ dr_color' = [pen |-> Elem.stroke, fill |-> PolygonFill(Elem.fill)]
    /\ dr_calls' = Append(dr_calls, SetColor(Elem.stroke, PolygonFill(Elem.fill)))
    /\ dr_pc' = "dp_first"
    /\ UNCHANGED <<dr_elems, dr_ring, dr_pt, dr_pen, dr_pos, dr_filling>>
    /\ UNCHANGED <<tr_vars, fl_vars, vw_vars>>

\* draw_polygon: p = poly[0]; head_to(t, p[0], -(p[1]), False)
DP_First ==
    /\ dr_pc = "dp_first"
    /\ HeadTo(Target(Ring[1]), FALSE)
    /\ dr_pt' = 2
    /\ dr_pc' = "dp_trace"
    /\ UNCHANGED <<dr_elems, dr_ring, dr_filling, dr_color>>
    /\ UNCHANGED <<tr_vars, fl_vars, vw_vars>>

\* draw_polygon: for p in poly[1:]: head_to(t, p[0], -(p[1]))
DP_Trace ==
    /\ dr_pc = "dp_trace"
    /\ dr_pt <= Len(Ring)
    /\ HeadTo(Target(Ring[dr_pt]), TRUE)
    /\ dr_pt' = dr_pt + 1
    /\ UNCHANGED <<dr_pc, dr_elems, dr_ring, dr_filling, dr_color>>
    /\ UNCHANGED <<tr_vars, fl_vars, vw_vars>>

\* draw_polygon: t.up(), and the return to draw_multipolygon
DP_Up ==
    /\ dr_pc = "dp_trace"
    /\ dr_pt > Len(Ring)
    /\ dr_pen' = FALSE
    /\ dr_calls' = Append(dr_calls, Call("up"))
    /\ dr_pc' = "dm_after"
    /\ UNCHANGED <<dr_elems, dr_ring, dr_pt, dr_pos, dr_filling, dr_color>>
    /\ UNCHANGED <<tr_vars, fl_vars, vw_vars>>

\* draw_multipolygon: if i != 0: head_to(t, p[0], -(p[1]), False), then the
\* next ring, if any
DM_After ==
    /\ dr_pc = "dm_after"
    /\ IF dr_ring # 1
       THEN HeadTo(Target(MPoly[1][1]), FALSE)
       ELSE UNCHANGED <<dr_calls, dr_pos, dr_pen>>
    /\ IF dr_ring < Len(MPoly)
       THEN dr_ring' = dr_ring + 1 /\ dr_pc' = "dp_enter"
       ELSE dr_ring' = dr_ring /\ dr_pc' = "dm_end"
    /\ UNCHANGED <<dr_elems, dr_pt, dr_filling, dr_color>>
    /\ UNCHANGED <<tr_vars, fl_vars, vw_vars>>

\* draw_multipolygon: if fill != "none": t.end_fill(), and the return to main
DM_EndFill ==
    /\ dr_pc = "dm_end"
    /\ IF FillWanted(Elem.fill)
       THEN /\ dr_filling' = FALSE
            /\ dr_calls' = Append(dr_calls, Call("end_fill"))
       ELSE UNCHANGED <<dr_filling, dr_calls>>
    /\ dr_pc' = "main"
    /\ UNCHANGED <<dr_elems, dr_ring, dr_pt, dr_pen, dr_pos, dr_color>>
    /\ UNCHANGED <<tr_vars, fl_vars, vw_vars>>

\* main, lines 258-260: the loop is over; t.clearstamps(); t.penup()
Main_Finish ==
    /\ dr_pc = "main"
    /\ dr_pen' = FALSE
    /\ dr_pc' = "finished"
    /\ UNCHANGED <<dr_elems, dr_ring, dr_pt, dr_pos, dr_filling, dr_color, dr_calls>>
    /\ UNCHANGED <<tr_vars, fl_vars, vw_vars>>

DrNext ==
    \/ Main_Next \/ DM_Enter \/ DM_BeginFill \/ DP_Color \/ DP_First
    \/ DP_Trace \/ DP_Up \/ DM_After \/ DM_EndFill \/ Main_Finish

SpecDraw == DrInit /\ [][DrNext]_vars

(***************************************************************************)
(* The viewport: read_svg lines 11-52, and main lines 210-240.             *)
(*                                                                         *)
(* An attribute text is kept as what the code makes of it: a dimension is  *)
(* a body (a number, or text float() rejects) and a unit suffix; a viewBox *)
(* is the tokens left by replace(',', ' ').split().  A path is one         *)
(* straight segment from a to b, flattened with seg_unit at least its      *)
(* length and no transform, so that its ring is (a, b, a).                 *)
(***************************************************************************)
NoAttr == [given |-> FALSE, body |-> Bad, unit |-> ""]
Text(body, unit) == [given |-> TRUE, body |-> body, unit |-> unit]

\* absent, "0", "3", "8px", "3mm", "abc"
DimAttrs == { NoAttr, Text(Num(0), ""), Text(Num(3), ""), Text(Num(8), "px"),
              Text(Num(3), "mm"), Text(Bad, "") }

\* _to_float(value, default=0.0): float(str(value).replace('px', '').strip()),
\* and the default when value is None or float() raises.
ToFloat(attr) ==
    IF ~attr.given THEN 0
    ELSE IF attr.body.num /\ attr.unit \in {"", "px"} THEN attr.body.val
    ELSE 0

\* The viewBox texts the model feeds: the first n tokens of "1 -2 7 5 3 4 6"
\* and of "1 -2 abc 5 3 4 6" (n = 0: blanks only), the empty text, and no
\* attribute.
VbTapes == { << Num(1), Num(-2), Num(7), Num(5), Num(3), Num(4), Num(6) >>,
             << Num(1), Num(-2), Bad, Num(5), Num(3), Num(4), Num(6) >> }

VbAttrs ==
    { [given |-> FALSE, empty |-> TRUE, parts |-> <<>>],
      [given |-> TRUE, empty |-> TRUE, parts |-> <<>>] }
    \cup { [given |-> TRUE, empty |-> FALSE, parts |-> SubSeq(tape, 1, n)] :
             tape \in VbTapes, n \in 0..MaxVbTokens }

PathKinds == { [a |-> <<-1, -1>>, b |-> <<2, 3>>],
               [a |-> <<1, 0>>, b |-> <<5, 5>>],
               [a |-> <<4, 1>>, b |-> <<4, 6>>],
               [a |-> <<4, 4>>, b |-> <<4, 4>>] }

\* (window.window_width(), window.window_height())
WinSizes == { <<800, 600>>, <<600, 800>>, <<700, 700>> }

\* path.bbox(): (xmin, xmax, ymin, ymax)
BBox(path) == << Min(path.a[1], path.b[1]), Max(path.a[1], path.b[1]),
                 Min(path.a[2], path.b[2]), Max(path.a[2], path.b[2]) >>

\* Lines 36-52: the running minima and maxima over the paths' boxes, <<>>
\* standing for the infinities they start from.
RECURSIVE PathBounds(_, _)
PathBounds(paths, k) ==
    IF k = 0 THEN <<>>
    ELSE LET acc == PathBounds(paths, k - 1)
             bb == BBox(paths[k])
         IN  IF acc = <<>> THEN << bb[1], bb[3], bb[2], bb[4] >>
             ELSE << Min(acc[1], bb[1]), Min(acc[2], bb[3]),
                     Max(acc[3], bb[2]), Max(acc[4], bb[4]) >>

DefaultExtent == << 0, 0, 1000, 1000 >>

\* Line 29: the viewBox has a number of tokens other than 4.
WrongCountViewBox(width, height, paths) == << 0, 0, width, height >>

\* Lines 32-52: no viewBox attribute, or an empty one.
NoViewBox(width, height, paths) ==
    IF width > 0 /\ height > 0 THEN << 0, 0, width, height >>
    ELSE IF PathBounds(paths, Len(paths)) = <<>> THEN DefaultExtent
    ELSE PathBounds(paths, Len(paths))

\* compute_bounds(polys)
compute_bounds(polys) ==
    LET pts == UNION { UNION { { polys[e][r][i] : i \in 1..Len(polys[e][r]) } :
                                 r \in 1..Len(polys[e]) } : e \in 1..Len(polys) }
        SetMin(S) == CHOOSE v \in S : \A w \in S : v <= w
        SetMax(S) == CHOOSE v \in S : \A w \in S : v >= w
    IN  IF pts = {} THEN DefaultExtent
        ELSE << SetMin({ q[1] : q \in pts }), SetMin({ q[2] : q \in pts }),
                SetMax({ q[1] : q \in pts }), SetMax({ q[2] : q \in pts }) >>

\* The numbers of the mapping.  Every coordinate of an extent is whole in
\* the model, so max(v, 1e-6) is v when v >= 1 and 1e-6 otherwise:
\*   a guarded length  [c, e]     is  c * Eps^e                (e = 0 or 1),
\*   a window length   [n, d, e]  is  (n / d) * Eps^e          (e = 0 or -1),
\*   a world bound     [u, eps]   is  (u + eps * Eps) / MarginDen,
\* where Eps = 1e-6 = 1 / Micro and margin = 0.02 = 1 / MarginDen.
Micro == 1000000
MarginDen == 50

\* max(v, 1e-6)
Guarded(v) == IF v >= 1 THEN [c |-> v, e |-> 0] ELSE [c |-> 1, e |-> 1]

\* vb_w = max(vb[2]-vb[0], 1e-6)
GuardedWidth(vb) == Guarded(vb[3] - vb[1])

\* vb_h = max(vb[3]-vb[1], 1e-6)
GuardedHeight(vb) == Guarded(vb[4] - vb[2])

\* g > h for guarded lengths
GuardedGreater(g, h) == IF g.e = h.e THEN g.c > h.c ELSE g.e < h.e

MainExtentMutant(size, viewbox, polys) == viewbox

\* main, lines 213-217: vb is (0, 0, width, height) or the bounds of the
\* polygons; read_svg's viewbox is not read.
MainExtent(size, viewbox, polys) ==
    IF size[1] > 0 /\ size[2] > 0 THEN << 0, 0, size[1], size[2] >>
    ELSE compute_bounds(polys)

SetupSizeMutant(vb, win) ==
    LET w == GuardedWidth(vb)
        h == GuardedHeight(vb)
        win_m == Min(win[1], win[2])
    IN  IF GuardedGreater(w, h)
        THEN [w |-> [n |-> win_m, d |-> 1, e |-> 0],
              h |-> [n |-> win_m * h.c, d |-> w.c, e |-> h.e - w.e]]
        ELSE [w |-> [n |-> win_m * w.c, d |-> h.c, e |-> w.e - h.e],
              h |-> [n |-> win_m, d |-> 1, e |-> 0]]

\* main, lines 221-228: ar = vb_w/vb_h; win_m = min(width, height) of the
\* window; window.setup(win_m*ar, win_m) if ar > 1, else
\* window.setup(win_m, win_m/ar).
SetupSize(vb, win) ==
    LET w == GuardedWidth(vb)
        h == GuardedHeight(vb)
        win_m == Min(win[1], win[2])
    IN  IF GuardedGreater(w, h)
        THEN [w |-> [n |-> win_m * w.c, d |-> h.c, e |-> w.e - h.e],
              h |-> [n |-> win_m, d |-> 1, e |-> 0]]
        ELSE [w |-> [n |-> win_m, d |-> 1, e |-> 0],
              h |-> [n |-> win_m * h.c, d |-> w.c, e |-> h.e - w.e]]

\* main, lines 233-240: dx = vb_w * margin, dy = vb_h * margin, and
\* (llx, lly, urx, ury) = (vb[0] - dx, -(vb[3] + dy), vb[2] + dx, -(vb[1] - dy))
WorldBounds(vb) ==
    LET dx == GuardedWidth(vb)
        dy == GuardedHeight(vb)
        Plus(v, g) == IF g.e = 0 THEN [u |-> MarginDen * v + g.c, eps |-> 0]
                      ELSE [u |-> MarginDen * v, eps |-> g.c]
        Minus(v, g) == IF g.e = 0 THEN [u |-> MarginDen * v - g.c, eps |-> 0]
                       ELSE [u |-> MarginDen * v, eps |-> -g.c]
        Neg(b) == [u |-> -b.u, eps |-> -b.eps]
    IN  << Minus(vb[1], dx), Neg(Plus(vb[4], dy)), Plus(vb[3], dx), Neg(Minus(vb[2], dy)) >>

ViewInputs ==
    { [width |-> w, height |-> h, viewBox |-> v, paths |-> ps, win |-> win] :
        w \in DimAttrs, h \in DimAttrs, v \in VbAttrs,
        ps \in UNION { [1..n -> PathKinds] : n \in 0..MaxPaths },
        win \in WinSizes }

VwInit ==
    /\ TrIdle
    /\ FlIdle
    /\ DrIdle
    /\ vw_pc = "read_svg"
    /\ vw_in \in ViewInputs
    /\ rs_size = <<0, 0>>
    /\ rs_viewbox = <<>>
    /\ rs_polys = <<>>
    /\ mn_vb = <<>>
    /\ mn_window = <<>>
    /\ mn_world = <<>>

\* read_svg, lines 19-21
RS_Size ==
    /\ vw_pc = "read_svg"
    /\ rs_size' = << ToFloat(vw_in.width), ToFloat(vw_in.height) >>
    /\ vw_pc' = "viewbox"
    /\ UNCHANGED <<vw_in, rs_viewbox, rs_polys, mn_vb, mn_window, mn_world>>
    /\ UNCHANGED <<tr_vars, fl_vars, dr_vars>>

\* vb_attr is truthy: the attribute is there and its text is not empty.
VbTruthy == vw_in.viewBox.given /\ ~vw_in.viewBox.empty

\* read_svg, lines 23-29 with 4 tokens that float() all takes
RS_ViewBoxDeclared ==
    /\ vw_pc = "viewbox"
    /\ VbTruthy
    /\ Len(vw_in.viewBox.parts) = 4
    /\ \A k \in 1..4 : vw_in.viewBox.parts[k].num
    /\ rs_viewbox' = [k \in 1..4 |-> vw_in.viewBox.parts[k].val]
    /\ vw_pc' = "polys"
    /\ UNCHANGED <<vw_in, rs_size, rs_polys, mn_vb, mn_window, mn_world>>
    /\ UNCHANGED <<tr_vars, fl_vars, dr_vars>>

\* read_svg, line 27 with 4 tokens of which float() rejects one: ValueError,
\* which nothing in read_svg or main catches
RS_ViewBoxRaises ==
    /\ vw_pc = "viewbox"
    /\ VbTruthy
    /\ Len(vw_in.viewBox.parts) = 4
    /\ \E k \in 1..4 : ~vw_in.viewBox.parts[k].num
    /\ vw_pc' = "raised"
    /\ UNCHANGED <<vw_in, rs_size, rs_viewbox, rs_polys, mn_vb, mn_window, mn_world>>
    /\ UNCHANGED <<tr_vars, fl_vars, dr_vars>>

\* read_svg, lines 28-29
RS_ViewBoxWrongCount ==
    /\ vw_pc = "viewbox"
    /\ VbTruthy
    /\ Len(vw_in.viewBox.parts) # 4
    /\ rs_viewbox' = WrongCountViewBox(rs_size[1], rs_size[2], vw_in.paths)
    /\ vw_pc' = "polys"
    /\ UNCHANGED <<vw_in, rs_size, rs_polys, mn_vb, mn_window, mn_world>>
    /\ UNCHANGED <<tr_vars, fl_vars, dr_vars>>

\* read_svg, lines 30-52
RS_NoViewBox ==
    /\ vw_pc = "viewbox"
    /\ ~VbTruthy
    /\ rs_viewbox' = NoViewBox(rs_size[1], rs_size[2], vw_in.paths)
    /\ vw_pc' = "polys"
    /\ UNCHANGED <<vw_in, rs_size, rs_polys, mn_vb, mn_window, mn_world>>
    /\ UNCHANGED <<tr_vars, fl_vars, dr_vars>>

\* read_svg, lines 118-152: the polygons of the paths, and the return
RS_Polys ==
    /\ vw_pc = "polys"
    /\ rs_polys' = [k \in 1..Len(vw_in.paths) |->
                      << << vw_in.paths[k].a, vw_in.paths[k].b, vw_in.paths[k].a >> >>]
    /\ vw_pc' = "main"
    /\ UNCHANGED <<vw_in, rs_size, rs_viewbox, mn_vb, mn_window, mn_world>>
    /\ UNCHANGED <<tr_vars, fl_vars, dr_vars>>

\* main, lines 213-217
MN_Extent ==
    /\ vw_pc = "main"
    /\ mn_vb' = MainExtent(rs_size, rs_viewbox, rs_polys)
    /\ vw_pc' = "setup"
    /\ UNCHANGED <<vw_in, rs_size, rs_viewbox, rs_polys, mn_window, mn_world>>
    /\ UNCHANGED <<tr_vars, fl_vars, dr_vars>>

\* main, lines 219-228
MN_Setup ==
    /\ vw_pc = "setup"
    /\ mn_window' = SetupSize(mn_vb, vw_in.win)
    /\ vw_pc' = "world"
    /\ UNCHANGED <<vw_in, rs_size, rs_viewbox, rs_polys, mn_vb, mn_world>>
    /\ UNCHANGED <<tr_vars, fl_vars, dr_vars>>

\* main, lines 233-240
MN_World ==
    /\ vw_pc = "world"
    /\ mn_world' = WorldBounds(mn_vb)
    /\ vw_pc' = "mapped"
    /\ UNCHANGED <<vw_in, rs_size, rs_viewbox, rs_polys, mn_vb, mn_window>>
    /\ UNCHANGED <<tr_vars, fl_vars, dr_vars>>

VwNext ==
    \/ RS_Size \/ RS_ViewBoxDeclared \/ RS_ViewBoxRaises \/ RS_ViewBoxWrongCount
    \/ RS_NoViewBox \/ RS_Polys \/ MN_Extent \/ MN_Setup \/ MN_World

SpecView == VwInit /\ [][VwNext]_vars

(***************************************************************************)
(* Claims about parse_transform.                                           *)
(***************************************************************************)
\* M_fn x ... x M_f1 for the functions f1 ... fn in textual order.
RECURSIVE LastOutermost(_)
LastOutermost(calls) ==
    IF calls = <<>> THEN mat_identity
    ELSE mat_mul(OpMatrix(Last(calls)), LastOutermost(Front(calls)))

\* T_fn(... T_f1(p)): p sent through the functions one at a time, f1 first.
RECURSIVE PointThrough(_, _)
PointThrough(calls, p) ==
    IF calls = <<>> THEN p
    ELSE PointThrough(Tail(calls), mat_apply(OpMatrix(Head(calls)), p[1], p[2]))

TestPoints == { <<0, 0>>, <<1, 0>>, <<0, 1>>, <<2, -3>> }

\* C2: the functions of a transform list are folded in textual order by
\* left-multiplication, so the result is M_fn x ... x M_f1 and maps a point p
\* to T_fn(...T_f1(p)); an empty or absent string yields the identity.
C2_LeftFold ==
    /\ tr_pc \in {"loop", "returned"} =>
          /\ tr_m = LastOutermost(tr_calls)
          /\ \A p \in TestPoints :
                mat_apply(tr_m, p[1], p[2]) = PointThrough(tr_calls, p)
    /\ (tr_pc = "returned" /\ tr_calls = <<>>) => tr_m = mat_identity

\* Two functions that do not commute have been folded and the result returned.
C2_Witness ==
    /\ tr_pc = "returned"
    /\ Len(tr_calls) = 2
    /\ mat_mul(OpMatrix(tr_calls[2]), OpMatrix(tr_calls[1]))
         # mat_mul(OpMatrix(tr_calls[1]), OpMatrix(tr_calls[2]))

\* The step just taken folded a matrix(...) function with n numeric values.
FoldedMatrixCall(n) ==
    /\ Len(tr_calls') = Len(tr_calls) + 1
    /\ Lower(Last(tr_calls').func) = "matrix"
    /\ Len(parse_numbers(Last(tr_calls').args)) = n

\* [[a,c,e],[b,d,f],[0,0,1]] of the first six values.
SixValueMatrix(vals) ==
    << <<vals[1], vals[3], vals[5]>>, <<vals[2], vals[4], vals[6]>>, <<0, 0, 1>> >>

\* C6 as stated: a matrix(...) function with a count of values other than 6
\* (fewer or more) leaves the running matrix unchanged.
C6_ExactlySix ==
    [][\A n \in 0..(MaxArgs + 1) :
          (FoldedMatrixCall(n) /\ n # 6) => tr_m' = tr_m]_vars

\* C6, amended: a matrix(...) function with at least 6 numeric values
\* contributes the matrix of its first 6 values; with fewer than 6 it leaves
\* the running matrix unchanged.
C6_AtLeastSix ==
    [][\A n \in 0..(MaxArgs + 1) :
          FoldedMatrixCall(n) =>
             /\ n < 6 => tr_m' = tr_m
             /\ n >= 6 => tr_m' = mat_mul(
                   SixValueMatrix(parse_numbers(Last(tr_calls').args)), tr_m)]_vars

\* A matrix(...) function with 7 values has changed the running matrix.
C6_Witness ==
    /\ Len(tr_calls) = 1
    /\ Lower(tr_calls[1].func) = "matrix"
    /\ Len(parse_numbers(tr_calls[1].args)) = 7
    /\ tr_m # mat_identity

(***************************************************************************)
(* Claims about the rings read_svg builds.                                 *)
(***************************************************************************)
\* The fractions p and q are the same point.
PtEq(p, q) == p.x * q.d = q.x * p.d /\ p.y * q.d = q.y * p.d

\* The whole-number point <<x, y>> as a sampled point.
AsPoint(c) == [x |-> c[1], y |-> c[2], d |-> 1]

\* The subpaths whose ring has been appended to poly.
ClosedSubpaths == IF fl_pc = "subpath" THEN Len(fl_path) - 1 ELSE Len(fl_path)

\* C9: every ring is closed (its last point equals its first, transform
\* applied), and the subpaths yield one ring each, in subpath order.
C9_RingsClosedInOrder ==
    /\ Len(fl_poly) = ClosedSubpaths
    /\ \A r \in 1..Len(fl_poly) :
          LET ring == fl_poly[r]
              sub == fl_path[r]
          IN  /\ Len(ring) >= 3
              /\ PtEq(ring[Len(ring)], ring[1])
              /\ PtEq(ring[1], ApplyToPoint(fl_m, AsPoint(sub[1].start)))
              /\ PtEq(ring[Len(ring) - 1], ApplyToPoint(fl_m, AsPoint(Last(sub).end)))

\* A transformed path of two subpaths is done, and one of its subpaths did
\* not end where it began.
C9_Witness ==
    /\ fl_pc = "done"
    /\ Len(fl_poly) = 2
    /\ fl_m # mat_identity
    /\ \E r \in 1..2 : ~PtEq(fl_poly[r][Len(fl_poly[r]) - 1], fl_poly[r][1])

\* The path read is one subpath of 4 sides going round a rectangle, with no
\* transform, and seg_unit is so large that no side gets a sample between
\* its endpoints.
RectangleRead ==
    /\ fl_pc = "done"
    /\ fl_m = mat_identity
    /\ Len(fl_path) = 1
    /\ Len(fl_path[1]) = 4
    /\ \A k \in 1..4 : /\ SegLength(fl_path[1][k]) > 0
                       /\ CeilDiv(SegLength(fl_path[1][k]), fl_unit) <= 2
    /\ fl_path[1][4].end = fl_path[1][1].start
    /\ Cardinality({ fl_path[1][k].start : k \in 1..4 }) = 4

\* C5 as stated: the rectangle yields one element with one ring of exactly
\* 5 points.
C5_FivePointRing ==
    RectangleRead =>
        /\ Len(fl_polys) = 1
        /\ Len(fl_polys[1]) = 1
        /\ Len(fl_polys[1][1]) = 5

\* C5, amended: the rectangle yields one element with one ring of exactly
\* 9 points: the two endpoints of each of the 4 sides in turn (every corner
\* between two sides twice in a row), then the closing copy of the first.
C5_NinePointRing ==
    RectangleRead =>
        /\ Len(fl_polys) = 1
        /\ Len(fl_polys[1]) = 1
        /\ LET ring == fl_polys[1][1]
           IN  /\ Len(ring) = 9
               /\ \A k \in 1..4 :
                     /\ ring[2 * k - 1] = AsPoint(fl_path[1][k].start)
                     /\ ring[2 * k] = AsPoint(fl_path[1][k].end)
               /\ ring[9] = AsPoint(fl_path[1][1].start)

\* A rectangle has been read.
C5_Witness == RectangleRead /\ Len(fl_polys) = 1

(***************************************************************************)
(* Claims about the drawing calls.                                         *)
(***************************************************************************)
\* draw_multipolygon has returned for the element in hand.
ElementDrawn == dr_pc = "main" /\ dr_elems # <<>>

IsGoto(c) == c.op = "goto"

\* A call without where the turtle happened to come from.
Sans(c) == [c EXCEPT !.from = <<0, 0>>]

\* The calls of draw_polygon for ring number r, then the move back that
\* draw_multipolygon makes after every ring but the first.
RingCalls(elem, r) ==
    LET ring == elem.mpoly[r]
    IN  << SetColor(elem.stroke, IF elem.fill = "none" THEN "black" ELSE elem.fill),
           Goto(<<0, 0>>, Target(ring[1]), FALSE) >>
        \o [i \in 1..(Len(ring) - 1) |-> Goto(<<0, 0>>, Target(ring[i + 1]), TRUE)]
        \o << Call("up") >>
        \o (IF r # 1 THEN << Goto(<<0, 0>>, Target(elem.mpoly[1][1]), FALSE) >>
            ELSE <<>>)

RECURSIVE RingsCalls(_, _)
RingsCalls(elem, r) ==
    IF r = 0 THEN <<>> ELSE RingsCalls(elem, r - 1) \o RingCalls(elem, r)

\* C3 as stated: colour first, then the pen-up move to the first ring's
\* first point, then the rings, and begin fill (unless fill is "none") only
\* after every ring has been traced.
C3_FillAfterTracing ==
    ElementDrawn =>
        /\ dr_calls[1].op = "color"
        /\ IsGoto(dr_calls[2]) /\ ~dr_calls[2].down
        /\ \A i, j \in 1..Len(dr_calls) :
              (dr_calls[i].op = "begin_fill" /\ IsGoto(dr_calls[j]) /\ dr_calls[j].down)
                 => j < i
        /\ Elem.fill # "none" => \E i \in 1..Len(dr_calls) : dr_calls[i].op = "begin_fill"

\* C3, amended: for an element the calls are, in this order: the pen-up move
\* to the first ring's first point; begin fill (unless fill is "none"); for
\* every ring in turn the colour (fill "none" set as black), the pen-up move
\* to the ring's first point, the pen-down moves through its other points,
\* pen up, and after every ring but the first a pen-up move back to the first
\* ring's first point; end fill (unless fill is "none").
C3_FillAroundTracing ==
    ElementDrawn =>
        [k \in 1..Len(dr_calls) |-> Sans(dr_calls[k])]
          = << Goto(<<0, 0>>, Target(MPoly[1][1]), FALSE) >>
            \o (IF Elem.fill # "none" THEN << Call("begin_fill") >> ELSE <<>>)
            \o RingsCalls(Elem, Len(MPoly))
            \o (IF Elem.fill # "none" THEN << Call("end_fill") >> ELSE <<>>)

\* A filled element of two rings has been drawn.
C3_Witness ==
    /\ ElementDrawn
    /\ Elem.fill # "none"
    /\ Len(MPoly) = 2
    /\ \E k \in 1..Len(dr_calls) : IsGoto(dr_calls[k]) /\ dr_calls[k].down

\* The move is from a point of a ring of the element in hand to the next
\* point of the same ring.
AlongOneRing(c) ==
    \E j \in 1..Len(MPoly) : \E i \in 1..(Len(MPoly[j]) - 1) :
        c.from = Target(MPoly[j][i]) /\ c.to = Target(MPoly[j][i + 1])

C10_State ==
    /\ \A k \in 1..Len(dr_calls) :
          (IsGoto(dr_calls[k]) /\ dr_calls[k].down) => AlongOneRing(dr_calls[k])
    /\ dr_pc \in {"dm_after", "dm_end"} => ~dr_pen
    /\ ElementDrawn => ~dr_pen

\* The step is a call of head_to.
HeadToStep ==
    /\ Len(dr_calls') = Len(dr_calls) + 1
    /\ IsGoto(Last(dr_calls'))

\* C10: a move is made with the pen down only between two consecutive
\* points of one ring; head_to leaves the pen as it found it; the pen is up
\* after draw_polygon and after draw_multipolygon return, whatever it was
\* before.
C10_PenDownOnlyAlongRing ==
    /\ []C10_State
    /\ [][HeadToStep => dr_pen' = dr_pen]_vars

\* The pen was down when draw_multipolygon was called and head_to has put
\* it back down after each of its moves; points of the ring have been traced.
C10_Witness ==
    /\ dr_pc = "dp_trace"
    /\ dr_pt > 2
    /\ dr_pen
    /\ \E k \in 1..Len(dr_calls) : IsGoto(dr_calls[k]) /\ ~dr_calls[k].down

(***************************************************************************)
(* Claims about the viewport and the coordinate mapping.                   *)
(***************************************************************************)
\* A viewBox attribute is declared with exactly 4 tokens, all numbers.
FourNumbers(vb) ==
    /\ vb.given /\ ~vb.empty
    /\ Len(vb.parts) = 4
    /\ \A k \in 1..4 : vb.parts[k].num

DeclaredViewBox(vb) == [k \in 1..4 |-> vb.parts[k].val]

\* The union of the boxes of the paths (a, b), the default without paths.
UnionOfBoxes(paths) ==
    IF paths = <<>> THEN << 0, 0, 1000, 1000 >>
    ELSE LET xs == { paths[k].a[1] : k \in 1..Len(paths) } \cup { paths[k].b[1] : k \in 1..Len(paths) }
             ys == { paths[k].a[2] : k \in 1..Len(paths) } \cup { paths[k].b[2] : k \in 1..Len(paths) }
             Least(S) == CHOOSE v \in S : \A w \in S : v <= w
             Most(S) == CHOOSE v \in S : \A w \in S : v >= w
         IN  << Least(xs), Least(ys), Most(xs), Most(ys) >>

\* The extent the fallback chain names for a document.
ChainExtent(in) ==
    IF FourNumbers(in.viewBox) THEN DeclaredViewBox(in.viewBox)
    ELSE IF ToFloat(in.width) > 0 /\ ToFloat(in.height) > 0
         THEN << 0, 0, ToFloat(in.width), ToFloat(in.height) >>
    ELSE UnionOfBoxes(in.paths)

\* C1: the extent read_svg returns follows the fallback chain: the viewBox
\* of 4 numbers; else (0, 0, width, height) if both are > 0; else the union
\* of the paths' boxes, or (0, 0, 1000, 1000) without any.
C1_FallbackChain ==
    vw_pc \in {"polys", "main"} => rs_viewbox = ChainExtent(vw_in)

\* C4: no text of a dimension or of a viewBox token that is not a number
\* makes read_svg raise: loading goes on with the default.
C4_NeverRaises == vw_pc # "raised"

\* The bounds lo - margin and hi + margin of one axis, margin being 2% of the
\* span hi - lo, or of 1e-6 when the span is below 1e-6.
LowBound(lo, hi) == IF hi - lo >= 1 THEN [u |-> 50 * lo - (hi - lo), eps |-> 0]
                 ELSE [u |-> 50 * lo, eps |-> -1]
HighBound(lo, hi) == IF hi - lo >= 1 THEN [u |-> 50 * hi + (hi - lo), eps |-> 0]
                 ELSE [u |-> 50 * hi, eps |-> 1]
Negated(b) == [u |-> -b.u, eps |-> -b.eps]

\* (llx, lly, urx, ury) for the extent ext, the Y axis turned over.
WorldOf(ext) ==
    << LowBound(ext[1], ext[3]), Negated(HighBound(ext[2], ext[4])),
       HighBound(ext[1], ext[3]), Negated(LowBound(ext[2], ext[4])) >>

\* C7 as stated: with a viewBox of 4 numbers declared, the world bounds are
\* those of the viewBox, whatever width, height and geometry are.
C7_WorldFromViewBox ==
    (vw_pc = "mapped" /\ FourNumbers(vw_in.viewBox))
       => mn_world = WorldOf(DeclaredViewBox(vw_in.viewBox))

\* C7, amended: the world bounds are those of (0, 0, width, height) when the
\* declared width and height are both > 0, and otherwise those of the bounds
\* of the drawn geometry ((0, 0, 1000, 1000) without any), whatever the
\* viewBox is: lower Y = -(maxY + margin), upper Y = -(minY - margin), and
\* the X range widened by the margin.
C7_WorldFromSizeOrGeometry ==
    vw_pc = "mapped" =>
        mn_world = WorldOf(
            IF ToFloat(vw_in.width) > 0 /\ ToFloat(vw_in.height) > 0
            THEN << 0, 0, ToFloat(vw_in.width), ToFloat(vw_in.height) >>
            ELSE UnionOfBoxes(vw_in.paths))

\* A viewBox of 4 numbers is declared and the world bounds are not its own.
C7_Witness ==
    /\ vw_pc = "mapped"
    /\ FourNumbers(vw_in.viewBox)
    /\ mn_world # WorldOf(DeclaredViewBox(vw_in.viewBox))

\* A window length equals, or is at least, the whole number v.
DimEq(dim, v) == dim.e = 0 /\ dim.n = v * dim.d
DimGE(dim, v) ==
    CASE dim.e = 0 -> dim.n >= v * dim.d
      [] dim.e = -1 -> dim.n >= CeilDiv(v * dim.d, Micro)
      [] dim.e = 1 -> dim.n \div Micro >= v * dim.d

\* The window has the aspect ratio of the extent main chose, its width and
\* height floored to 1e-6.
HasExtentAspect ==
    LET ew == Guarded(mn_vb[3] - mn_vb[1])
        eh == Guarded(mn_vb[4] - mn_vb[2])
    IN  /\ mn_window.w.e + eh.e = ew.e + mn_window.h.e
        /\ mn_window.w.n * eh.c * mn_window.h.d = ew.c * mn_window.h.n * mn_window.w.d

WindowSet == vw_pc \in {"world", "mapped"}

\* C8 as stated: the window has the extent's aspect ratio, keeps the larger
\* of W and H, and has neither dimension below min(W, H).
C8_LargerKept ==
    WindowSet =>
        /\ HasExtentAspect
        /\ \/ DimEq(mn_window.w, Max(vw_in.win[1], vw_in.win[2]))
           \/ DimEq(mn_window.h, Max(vw_in.win[1], vw_in.win[2]))
        /\ DimGE(mn_window.w, Min(vw_in.win[1], vw_in.win[2]))
        /\ DimGE(mn_window.h, Min(vw_in.win[1], vw_in.win[2]))

\* C8, amended: the window has the extent's aspect ratio, one of its
\* dimensions is min(W, H) (the larger of W and H is not kept), and neither
\* dimension is below min(W, H).
C8_SmallerKept ==
    WindowSet =>
        /\ HasExtentAspect
        /\ \/ DimEq(mn_window.w, Min(vw_in.win[1], vw_in.win[2]))
           \/ DimEq(mn_window.h, Min(vw_in.win[1], vw_in.win[2]))
        /\ DimGE(mn_window.w, Min(vw_in.win[1], vw_in.win[2]))
        /\ DimGE(mn_window.h, Min(vw_in.win[1], vw_in.win[2]))

\* The window has been set for a degenerate extent on a screen wider than
\* high.
C8_Witness ==
    /\ vw_pc = "mapped"
    /\ mn_vb[3] = mn_vb[1]
    /\ mn_vb[4] > mn_vb[2]
    /\ vw_in.win[1] > vw_in.win[2]

====
